---- MODULE Spec2Model ----
(***************************************************************************)
(* Model of scripts/extract_incidents.py: the incident merge engine, the   *)
(* finalizer, the impact-window extractor and the impact enrichment loop.  *)
(*                                                                         *)
(* Conventions.  A datetime is the number of minutes since 0001-01-01      *)
(* 00:00 UTC (proleptic Gregorian, as Python's datetime); Python's None is *)
(* NoneDt for a datetime, NoneStr for a string and None for an object.  A  *)
(* Python dict is a sequence of [k, v] pairs in insertion order.           *)
(***************************************************************************)
EXTENDS Integers, Sequences, FiniteSets, TLC

VARIABLES
    incidents,      \* main(): dict id -> merged incident (a function)
    seenPublished,  \* history: the non-absent published_at values merged so far
    carriers,       \* history: update key -> the updates of the first entry carrying it
    finalized,      \* result of finalize_incident, None before it ran
    messages,       \* argument of parse_impact_window
    window,         \* result of parse_impact_window
    cache_path,     \* enrich_impacts: args.impact_cache
    disk,           \* the file at cache_path
    cache,          \* enrich_impacts: the in-memory cache, url -> entry
    enriched,       \* enrich_impacts: the list of incidents it is handed
    cursor,         \* enrich_impacts: index of the incident the loop is at
    phase,          \* enrich_impacts: "idle", "start", "loop", "done", "raised"
    updated,        \* enrich_impacts: its flag of the same name
    fetched,        \* history: <<loop index, outcome>> of every fetch_url call
    fetchedOk,      \* history: url -> the entry made of its last fetched page
    input,          \* arguments of the function that is called on its own
    output,         \* [value |-> its result], None before the call
    commits,        \* main(): the revisions listed by git log, oldest first
    position,       \* main(): index of the element the current loop is at
    step,           \* main(): "idle"; "log", "replay" or "audit", "eval"; "done", "raised"
    options,        \* main(): the command-line arguments
    outputs         \* main(): file written -> number of its records

vars == <<incidents, seenPublished, carriers, finalized, messages, window,
          cache_path, disk, cache, enriched, cursor, phase, updated, fetched,
          fetchedOk, input, output, commits, position, step, options, outputs>>

mainVars == <<incidents, seenPublished, carriers, finalized, messages, window>>

enrichVars == <<cache_path, disk, cache, enriched, cursor, phase, updated,
                fetched, fetchedOk>>

callVars == <<input, output>>

runVars == <<commits, position, step, options, outputs>>

\* no function is called on its own
CallIdle ==
    /\ input = [none |-> TRUE]
    /\ output = [none |-> TRUE]

\* main() is not running
RunIdle ==
    /\ commits = << >>
    /\ position = 0
    /\ step = "idle"
    /\ options = [none |-> TRUE]
    /\ outputs = << >>

\* enrich_impacts is not running (main without --enrich-impact)
EnrichIdle ==
    /\ cache_path = ""
    /\ disk = [kind |-> "missing"]
    /\ cache = << >>
    /\ enriched = << >>
    /\ cursor = 0
    /\ phase = "idle"
    /\ updated = FALSE
    /\ fetched = {}
    /\ fetchedOk = << >>

(***************************************************************************)
(* Absent values                                                           *)
(***************************************************************************)
NoneDt == -1
NoneStr == "<None>"
None == [none |-> TRUE]

TruthyStr(s) == s # NoneStr /\ s # ""
TruthyDt(dt) == dt # NoneDt

(***************************************************************************)
(* Bounds of the model                                                     *)
(***************************************************************************)
MaxBlocks == 2      \* paragraph blocks in one entry's narrative
MaxTime == 2        \* published/updated timestamps range over 1..MaxTime
MaxUpdates == 3     \* updates of a merged incident handed to finalize_incident
MaxMessages == 2    \* messages handed to parse_impact_window
MaxIncidents == 2   \* incidents handed to enrich_impacts
MaxLabels == 2      \* labels in one answer of the entity model
MaxCommits == 2     \* revisions listed by git log

(***************************************************************************)
(* Sequences helpers                                                       *)
(***************************************************************************)
Range(s) == {s[i] : i \in 1..Len(s)}

SeqsUpTo(S, n) == UNION {[1..k -> S] : k \in 0..n}

\* list.sort(key=...) is stable.  before[i][j] says that the key of s[i] is
\* less than the key of s[j]; element i lands after the elements whose key is
\* less and after the elements of equal key that precede it.
StableSort(s, before) ==
    LET n == Len(s)
        pos(i) == 1 + Cardinality({j \in 1..n :
                        before[j][i] \/ (~before[i][j] /\ j < i)})
    IN  [p \in 1..n |-> s[CHOOSE i \in 1..n : pos(i) = p]]

(***************************************************************************)
(* dict, as a sequence of [k, v] pairs in insertion order                  *)
(***************************************************************************)
DictKeys(d) == {d[i].k : i \in 1..Len(d)}
DictGet(d, key) == (CHOOSE i \in 1..Len(d) : d[i].k = key)
DictValue(d, key) == d[DictGet(d, key)].v
DictValues(d) == [i \in 1..Len(d) |-> d[i].v]

\* d[key] = value: an existing key keeps its position and takes the value
DictSet(d, key, value) ==
    IF key \in DictKeys(d)
    THEN [i \in 1..Len(d) |-> IF d[i].k = key THEN [k |-> key, v |-> value] ELSE d[i]]
    ELSE Append(d, [k |-> key, v |-> value])

DictAppendAlways(d, key, value) == Append(d, [k |-> key, v |-> value])

DictOverwrite(d, key, value) == DictSet(d, key, value)

\* d.setdefault(key, value)
DictSetDefault(d, key, value) ==
    IF key \in DictKeys(d) THEN d ELSE Append(d, [k |-> key, v |-> value])

(***************************************************************************)
(* update_key, parse_updates (its tail), merge_incident                    *)
(***************************************************************************)
\* isoformat() of a UTC datetime with "+00:00" replaced by "Z": one string
\* per instant
IsoZ(dt) == ToString(dt) \o "Z"

update_key(update) ==
    IsoZ(update.at) \o "|" \o update.status \o "|" \o update.message

\* parse_updates, from the blocks that carry a resolved timestamp and a
\* status: one update per block, _order its index, sorted by "at"
parse_updates_blocks(blocks) ==
    LET updates == [i \in 1..Len(blocks) |->
                       [at |-> blocks[i].at, status |-> blocks[i].status,
                        message |-> blocks[i].message, order |-> i - 1]]
    IN  StableSort(updates,
                   [i \in 1..Len(updates) |->
                       [j \in 1..Len(updates) |-> updates[i].at < updates[j].at]])

RECURSIVE DictFromUpdates(_)
\* {update_key(u): u for u in updates}
DictFromUpdates(updates) ==
    IF updates = << >> THEN << >>
    ELSE LET front == SubSeq(updates, 1, Len(updates) - 1)
             u == updates[Len(updates)]
         IN  DictSet(DictFromUpdates(front), update_key(u), u)

SetDefaultNone(d, updates) == d

RECURSIVE SetDefaultAll(_, _)
\* for update in updates: d.setdefault(update_key(update), update)
SetDefaultAll(d, updates) ==
    IF updates = << >> THEN d
    ELSE SetDefaultAll(DictSetDefault(d, update_key(updates[1]), updates[1]),
                       Tail(updates))

merge_published_later(existing, incoming) ==
    IF TruthyDt(incoming.published_at)
       /\ (existing.published_at = NoneDt
           \/ incoming.published_at > existing.published_at)
    THEN incoming.published_at
    ELSE existing.published_at

merge_published(existing, incoming) ==
    IF TruthyDt(incoming.published_at)
       /\ (existing.published_at = NoneDt
           \/ incoming.published_at < existing.published_at)
    THEN incoming.published_at
    ELSE existing.published_at

merge_newer_or_equal(existing, incoming) ==
    TruthyDt(incoming.updated_at)
    /\ (existing.updated_at = NoneDt \/ incoming.updated_at >= existing.updated_at)

\* the guard of the updated_at/title/url/entry_id branch
merge_newer(existing, incoming) ==
    TruthyDt(incoming.updated_at)
    /\ (existing.updated_at = NoneDt \/ incoming.updated_at > existing.updated_at)

\* existingOpt is << >> for None, <<incident>> otherwise
merge_incident(existingOpt, incoming) ==
    IF existingOpt = << >>
    THEN [id |-> incoming.id,
          entry_id |-> incoming.entry_id,
          title |-> incoming.title,
          url |-> incoming.url,
          published_at |-> incoming.published_at,
          updated_at |-> incoming.updated_at,
          updates |-> DictFromUpdates(incoming.updates)]
    ELSE LET existing == existingOpt[1]
             newer == merge_newer(existing, incoming)
         IN  [id |-> existing.id,
              entry_id |-> IF newer /\ TruthyStr(incoming.entry_id)
                           THEN incoming.entry_id ELSE existing.entry_id,
              title |-> IF newer /\ TruthyStr(incoming.title)
                        THEN incoming.title ELSE existing.title,
              url |-> IF newer /\ TruthyStr(incoming.url)
                      THEN incoming.url ELSE existing.url,
              published_at |-> merge_published(existing, incoming),
              updated_at |-> IF newer THEN incoming.updated_at
                             ELSE existing.updated_at,
              updates |-> SetDefaultAll(existing.updates, incoming.updates)]

(***************************************************************************)
(* datetime: the proleptic Gregorian calendar                              *)
(***************************************************************************)
IsLeap(year) == year % 4 = 0 /\ (year % 100 # 0 \/ year % 400 = 0)

DaysInMonth(year, month) ==
    CASE month \in {4, 6, 9, 11} -> 30
      [] month = 2 -> IF IsLeap(year) THEN 29 ELSE 28
      [] OTHER -> 31

RECURSIVE DaysBeforeMonth(_, _)
DaysBeforeMonth(year, month) ==
    IF month = 1 THEN 0
    ELSE DaysBeforeMonth(year, month - 1) + DaysInMonth(year, month - 1)

\* datetime(...) raises ValueError outside these ranges
DatetimeValid(year, month, day, hour, minute) ==
    /\ year \in 1..9999
    /\ month \in 1..12
    /\ day \in 1..DaysInMonth(year, month)
    /\ hour \in 0..23
    /\ minute \in 0..59

\* date.toordinal(): 0001-01-01 is day 1
Ordinal(year, month, day) ==
    LET y == year - 1
    IN  y * 365 + y \div 4 - y \div 100 + y \div 400
        + DaysBeforeMonth(year, month) + day

MinutesPerDay == 1440

Datetime(year, month, day, hour, minute) ==
    (Ordinal(year, month, day) - 1) * MinutesPerDay + hour * 60 + minute

\* the exception datetime(...) raises, as a result value
ValueError == [raised |-> "ValueError"]

(***************************************************************************)
(* parse_impact_window                                                     *)
(***************************************************************************)
MONTH_FULL ==
    [name \in {"January", "February", "March", "April", "May", "June", "July",
               "August", "September", "October", "November", "December"} |->
        CASE name = "January" -> 1 [] name = "February" -> 2
          [] name = "March" -> 3 [] name = "April" -> 4
          [] name = "May" -> 5 [] name = "June" -> 6
          [] name = "July" -> 7 [] name = "August" -> 8
          [] name = "September" -> 9 [] name = "October" -> 10
          [] name = "November" -> 11 [] name = "December" -> 12]

\* str.title() on the spellings of a month name the patterns accept
\* (re.IGNORECASE)
Title(name) ==
    CASE name \in {"january", "JANUARY"} -> "January"
      [] name \in {"february", "FEBRUARY"} -> "February"
      [] name \in {"december", "DECEMBER"} -> "December"
      [] OTHER -> name

Pad2(n) == IF n < 10 THEN "0" \o ToString(n) ELSE ToString(n)

ClockText(clock) == Pad2(clock[1]) \o ":" \o Pad2(clock[2])

DateText(g) == g.month \o " " \o ToString(g.day) \o ", " \o ToString(g.year)

BetweenText(g) ==
    "between " \o ClockText(g.start) \o " UTC and " \o ClockText(g.end) \o " UTC"

\* The sentence IMPACT_RE_1 matches, for its five groups g
Sentence1(g) == "On " \o DateText(g) \o ", " \o BetweenText(g)

\* The sentence IMPACT_RE_2 matches, for its five groups g
Sentence2(g) == "We saw errors " \o BetweenText(g) \o ", on " \o DateText(g)

Groups(month, day, year, start, end) ==
    [month |-> month, day |-> day, year |-> year, start |-> start, end |-> end]

\* A message with what IMPACT_RE_1.search and IMPACT_RE_2.search find in it
Matching1(g) == [text |-> Sentence1(g), re1 |-> g, re2 |-> None]

Matching2(g) == [text |-> Sentence2(g), re1 |-> None, re2 |-> g]

\* a sentence of template 1 followed by ", on <date>": both patterns match
MatchingBoth(g, date) ==
    [text |-> Sentence1(g) \o ", on " \o DateText(date),
     re1 |-> g,
     re2 |-> Groups(date.month, date.day, date.year, g.start, g.end)]

TestGroups1 == Groups("January", 13, 2025, <<23, 35>>, <<0, 24>>)

TestGroups2 == Groups("January", 28, 2024, <<1, 0>>, <<14, 0>>)

\* month names, days, years and clock times of the sampled sentences
SampleDates ==
    {<<"January", 13, 2025>>, <<"february", 29, 2024>>, <<"December", 31, 2025>>}

SampleClocks == {<<0, 24>>, <<23, 35>>, <<24, 0>>}

SampleGroups ==
    {Groups(d[1], d[2], d[3], s, e) :
        d \in SampleDates, s \in SampleClocks, e \in SampleClocks}

\* February 29 of a year that is not a leap year
NoSuchDayGroups == Groups("February", 29, 2025, <<1, 0>>, <<14, 0>>)

PostmortemSentences ==
    {Matching1(g) : g \in SampleGroups \cup {TestGroups1, NoSuchDayGroups}}
    \cup {Matching2(g) : g \in SampleGroups \cup {TestGroups2}}
    \cup {MatchingBoth(TestGroups1, Groups("January", 14, 2025, << >>, << >>))}

SentenceOf(message) == CHOOSE s \in PostmortemSentences : s.text = message

IsSentence(message) == \E s \in PostmortemSentences : s.text = message

\* IMPACT_RE_1.search(message): the groups, or None
IMPACT_RE_1_search(message) ==
    IF IsSentence(message) THEN SentenceOf(message).re1 ELSE None

\* IMPACT_RE_2.search(message): the groups, or None
IMPACT_RE_2_search(message) ==
    IF IsSentence(message) THEN SentenceOf(message).re2 ELSE None

rollover_if_earlier(start_at, end_at) ==
    IF end_at < start_at THEN end_at + MinutesPerDay ELSE end_at

\* if end_at <= start_at: end_at = end_at + timedelta(days=1)
rollover(start_at, end_at) ==
    IF end_at <= start_at THEN end_at + MinutesPerDay ELSE end_at

\* the body of either branch, from the groups of the match
window_of_match(g, message) ==
    LET month == MONTH_FULL[Title(g.month)]
    IN  IF /\ DatetimeValid(g.year, month, g.day, g.start[1], g.start[2])
           /\ DatetimeValid(g.year, month, g.day, g.end[1], g.end[2])
        THEN LET start_at == Datetime(g.year, month, g.day, g.start[1], g.start[2])
                 end_at == Datetime(g.year, month, g.day, g.end[1], g.end[2])
             IN  [start_at |-> start_at,
                  end_at |-> rollover(start_at, end_at),
                  context |-> message]
        ELSE ValueError

MessageMatches(message) ==
    IMPACT_RE_1_search(message) # None \/ IMPACT_RE_2_search(message) # None

parse_impact_window(msgs) ==
    IF \E i \in 1..Len(msgs) : MessageMatches(msgs[i])
    THEN LET first == CHOOSE i \in 1..Len(msgs) :
                          /\ MessageMatches(msgs[i])
                          /\ \A j \in 1..(i - 1) : ~MessageMatches(msgs[j])
             message == msgs[first]
         IN  IF IMPACT_RE_1_search(message) # None
             THEN window_of_match(IMPACT_RE_1_search(message), message)
             ELSE window_of_match(IMPACT_RE_2_search(message), message)
    ELSE None

(***************************************************************************)
(* main(): the replay loop, for the entries of one incident identifier     *)
(***************************************************************************)
IncidentId == "inc"

\* incidents.get(id), as << >> or <<incident>>
IncidentsGet(d, id) == IF id \in DOMAIN d THEN <<d[id]>> ELSE << >>

UpdateTriple(u) == <<u.at, u.status, u.message>>

\* history: the first entry that carries a triple fixes its carriers
CarriersAfter(c, entry) ==
    LET new == {UpdateTriple(u) : u \in Range(entry.updates)} \ DOMAIN c
    IN  [t \in DOMAIN c \cup new |->
            IF t \in DOMAIN c THEN c[t]
            ELSE {u \in Range(entry.updates) : UpdateTriple(u) = t}]

\* existing = incidents.get(entry["id"]);
\* incidents[entry["id"]] = merge_incident(existing, entry)
MergeEntry(entry) ==
    /\ incidents' =
          [i \in DOMAIN incidents \cup {entry.id} |->
              IF i = entry.id
              THEN merge_incident(IncidentsGet(incidents, entry.id), entry)
              ELSE incidents[i]]
    /\ seenPublished' = seenPublished \cup ({entry.published_at} \ {NoneDt})
    /\ carriers' = CarriersAfter(carriers, entry)

\* Raw entries whose metadata vary (parse_atom's fields), with no updates
MetaEntries ==
    [id : {IncidentId},
     entry_id : {"inc", "tag:status/inc"},
     title : {"", "Incident A", "Incident B"},
     url : {NoneStr, "https://s/1", "https://s/2"},
     published_at : {NoneDt} \cup 1..MaxTime,
     updated_at : {NoneDt} \cup 1..MaxTime,
     updates : {<< >>}]

\* Paragraph blocks of a narrative: resolved timestamp, status, message
MergeBlocks ==
    {[at |-> 10, status |-> "Investigating", message |-> "m1"],
     [at |-> 10, status |-> "Investigating", message |-> "m2"],
     [at |-> 20, status |-> "Resolved", message |-> "m1"]}

\* Raw entries whose narratives vary
NarrativeEntries ==
    {[id |-> IncidentId, entry_id |-> "inc", title |-> "Incident A",
      url |-> "https://s/1", published_at |-> 1, updated_at |-> 1,
      updates |-> parse_updates_blocks(blocks)] :
        blocks \in SeqsUpTo(MergeBlocks, MaxBlocks)}

InitIdle ==
    /\ finalized = None
    /\ messages = << >>
    /\ window = None
    /\ EnrichIdle
    /\ CallIdle
    /\ RunIdle

InitMerge ==
    /\ incidents = << >>
    /\ seenPublished = {}
    /\ carriers = << >>
    /\ InitIdle

\* what a merge outside a run of main() leaves alone
MergeFrame ==
    /\ UNCHANGED <<finalized, messages, window>>
    /\ UNCHANGED <<enrichVars, callVars, runVars>>

MergeMeta == \E entry \in MetaEntries : MergeEntry(entry) /\ MergeFrame

MergeNarrative == \E entry \in NarrativeEntries : MergeEntry(entry) /\ MergeFrame

NextMergeMeta == MergeMeta

NextMergeNarrative == MergeNarrative

SpecMergeMeta == InitMerge /\ [][NextMergeMeta]_vars

SpecMergeNarrative == InitMerge /\ [][NextMergeNarrative]_vars

(***************************************************************************)
(* Properties of the merge engine                                          *)
(***************************************************************************)
Merged == incidents[IncidentId]

HasMerged == IncidentId \in DOMAIN incidents

Min(S) == CHOOSE x \in S : \A y \in S : x <= y

\* C1: merging a raw entry E into a merged incident (or seeding one from E)
\* and then merging E a second time leaves the update map with the same keys
\* and the same number of updates, each key once.
C1_MergeTwiceSameUpdates ==
    \A E \in NarrativeEntries :
        LET M1 == merge_incident(IncidentsGet(incidents, E.id), E)
            M2 == merge_incident(<<M1>>, E)
        IN  /\ DictKeys(M2.updates) = DictKeys(M1.updates)
            /\ Len(M2.updates) = Len(M1.updates)
            /\ Cardinality(DictKeys(M2.updates)) = Len(M2.updates)

\* an incident into which a two-update entry has been merged among others
C1_Witness ==
    /\ HasMerged
    /\ Len(Merged.updates) >= 3
    /\ \E E \in NarrativeEntries :
          /\ Len(E.updates) = 2
          /\ update_key(E.updates[1]) # update_key(E.updates[2])
          /\ \A i \in 1..2 : update_key(E.updates[i]) \in DictKeys(Merged.updates)

\* C2 as stated: at most one stored update per (timestamp, status) pair.
C2_OnePerTimestampStatus ==
    HasMerged =>
        \A i, j \in 1..Len(Merged.updates) :
            (/\ Merged.updates[i].v.at = Merged.updates[j].v.at
             /\ Merged.updates[i].v.status = Merged.updates[j].v.status)
            => i = j

\* C2 as amended: at most one stored update per (timestamp, status, message)
\* triple, and the stored update is one of the first entry that carried the
\* triple: a later entry carrying the triple neither adds nor changes it.
C2_OnePerTriple ==
    HasMerged =>
        /\ \A i, j \in 1..Len(Merged.updates) :
              UpdateTriple(Merged.updates[i].v) = UpdateTriple(Merged.updates[j].v)
              => i = j
        /\ \A i \in 1..Len(Merged.updates) :
              LET u == Merged.updates[i].v
              IN  /\ UpdateTriple(u) \in DOMAIN carriers
                  /\ u \in carriers[UpdateTriple(u)]
        /\ \A t \in DOMAIN carriers :
              \E i \in 1..Len(Merged.updates) : UpdateTriple(Merged.updates[i].v) = t

\* a triple carried first at index 1 of an entry is stored although a later
\* entry carried it at index 0
C2_Witness ==
    /\ HasMerged
    /\ \E i \in 1..Len(Merged.updates) :
          LET u == Merged.updates[i].v
          IN  /\ u.order = 1
              /\ carriers[UpdateTriple(u)] = {u}
              /\ \E j \in 1..Len(Merged.updates) :
                    /\ Merged.updates[j].v.order = 0
                    /\ Merged.updates[j].v.at = u.at
                    /\ Merged.updates[j].v.status = u.status
                    /\ Merged.updates[j].v.message # u.message

\* C3: published_at of the merged incident is the minimum of the non-absent
\* published timestamps of the entries merged so far (absent if there is none).
C3_PublishedIsMinimum ==
    HasMerged =>
        Merged.published_at =
            IF seenPublished = {} THEN NoneDt ELSE Min(seenPublished)

\* an earlier and a later published timestamp have both been merged
C3_Witness ==
    /\ HasMerged
    /\ Cardinality(seenPublished) >= 2
    /\ Merged.published_at = 1

\* C4: a merge into an existing incident changes updated_at, title, url or
\* entry_id only when it sets updated_at to a strictly newer value (or to a
\* value where there was none), and updated_at never decreases.
C4_MetadataOnlyWhenNewer ==
    [][HasMerged =>
        LET old == Merged
            new == incidents'[IncidentId]
        IN  /\ (<<old.updated_at, old.title, old.url, old.entry_id>>
                  # <<new.updated_at, new.title, new.url, new.entry_id>>)
               => /\ new.updated_at # NoneDt
                  /\ (old.updated_at = NoneDt \/ new.updated_at > old.updated_at)
            /\ old.updated_at # NoneDt => new.updated_at >= old.updated_at]_vars

\* the title of a newer entry has replaced the seeded one
C4_Witness ==
    /\ HasMerged
    /\ Merged.updated_at = MaxTime
    /\ Merged.title = "Incident B"
    /\ Merged.url = "https://s/2"
    /\ Merged.entry_id = "tag:status/inc"

(***************************************************************************)
(* parse_impact_window applied to a list of messages                       *)
(***************************************************************************)
PlainMessage == "Investigating reports."

ImpactMessages == {s.text : s \in PostmortemSentences} \cup {PlainMessage}

InitImpact ==
    /\ incidents = << >>
    /\ seenPublished = {}
    /\ carriers = << >>
    /\ finalized = None
    /\ messages \in SeqsUpTo(ImpactMessages, MaxMessages)
    /\ window = None
    /\ EnrichIdle
    /\ CallIdle
    /\ RunIdle

ParseImpactWindow ==
    /\ window = None
    /\ window' = parse_impact_window(messages)
    /\ UNCHANGED <<incidents, seenPublished, carriers, finalized, messages>>
    /\ UNCHANGED enrichVars
    /\ UNCHANGED callVars
    /\ UNCHANGED runVars

NextImpact == ParseImpactWindow

SpecImpact == InitImpact /\ [][NextImpact]_vars

IsWindow(w) == w # None /\ w # ValueError

\* the groups the window was computed from: those of the first pattern that
\* matches the context sentence
GroupsUsed(w) ==
    IF IMPACT_RE_1_search(w.context) # None
    THEN IMPACT_RE_1_search(w.context)
    ELSE IMPACT_RE_2_search(w.context)

ClockMinutes(clock) == clock[1] * 60 + clock[2]

StatedDay(g) == Ordinal(g.year, MONTH_FULL[Title(g.month)], g.day)

\* day number and minute of the day of a datetime
DayOf(dt) == dt \div MinutesPerDay + 1

MinuteOfDay(dt) == dt % MinutesPerDay

\* C8: every window parse_impact_window returns ends strictly after it
\* starts; start is the start clock time on the stated date, end is the end
\* clock time on the stated date when that is after the start clock time and
\* on the day after the stated date otherwise.
C8_EndAfterStart ==
    IsWindow(window) =>
        LET g == GroupsUsed(window)
        IN  /\ window.end_at > window.start_at
            /\ DayOf(window.start_at) = StatedDay(g)
            /\ MinuteOfDay(window.start_at) = ClockMinutes(g.start)
            /\ MinuteOfDay(window.end_at) = ClockMinutes(g.end)
            /\ DayOf(window.end_at) =
                  IF ClockMinutes(g.end) <= ClockMinutes(g.start)
                  THEN StatedDay(g) + 1 ELSE StatedDay(g)

\* a window of the second template whose end clock time equals its start
\* clock time, found after a message that matches neither template
C8_Witness ==
    /\ IsWindow(window)
    /\ Len(messages) = 2
    /\ messages[1] = PlainMessage
    /\ IMPACT_RE_1_search(window.context) = None
    /\ GroupsUsed(window).start = GroupsUsed(window).end

(***************************************************************************)
(* finalize_incident                                                       *)
(***************************************************************************)
STATUS_ORDER ==
    [status \in {"Investigating", "Identified", "Monitoring", "Update", "Resolved"} |->
        CASE status = "Investigating" -> 0
          [] status = "Identified" -> 1
          [] status = "Monitoring" -> 2
          [] status = "Update" -> 3
          [] status = "Resolved" -> 4]

UnrankedOrder == 99

\* STATUS_ORDER.get(status, 99)
STATUS_ORDER_get(status) ==
    IF status \in DOMAIN STATUS_ORDER THEN STATUS_ORDER[status] ELSE UnrankedOrder

\* The message texts of the model in the order of Python's str comparison
TextOrder ==
    <<PlainMessage,
      Sentence1(NoSuchDayGroups),
      Sentence1(TestGroups1),
      "Resolved.",
      Sentence2(TestGroups2),
      "m1",
      "m2">>

TextIndex(text) == CHOOSE i \in 1..Len(TextOrder) : TextOrder[i] = text

\* a < b on message texts
TextLess(a, b) == TextIndex(a) < TextIndex(b)

sort_key_less_without_status(a, b) ==
    \/ a.at < b.at
    \/ a.at = b.at /\ TextLess(a.message, b.message)

\* (at, rank, message) of a is less than that of b
sort_key_less(a, b) ==
    \/ a.at < b.at
    \/ /\ a.at = b.at
       /\ \/ STATUS_ORDER_get(a.status) < STATUS_ORDER_get(b.status)
          \/ /\ STATUS_ORDER_get(a.status) = STATUS_ORDER_get(b.status)
             /\ TextLess(a.message, b.message)

\* ordered = list(updates_by_key.values()); ordered.sort(key=...)
ordered_updates(updates_by_key) ==
    LET values == DictValues(updates_by_key)
    IN  StableSort(values,
                   [i \in 1..Len(values) |->
                       [j \in 1..Len(values) |-> sort_key_less(values[i], values[j])]])

\* update["at"] = update["at"].isoformat()...; update.pop("_order", None)
render_update(u) == [at |-> IsoZ(u.at), status |-> u.status, message |-> u.message]

started_at_of_earliest(ordered) ==
    IF ordered # << >> THEN ordered[1].at ELSE NoneStr

\* next((u["at"] for u in ordered if u["status"] == "Investigating"), None),
\* then ordered[0]["at"] when there is none
started_at_of(ordered) ==
    IF \E i \in 1..Len(ordered) : ordered[i].status = "Investigating"
    THEN ordered[CHOOSE i \in 1..Len(ordered) :
                    /\ ordered[i].status = "Investigating"
                    /\ \A j \in 1..(i - 1) : ordered[j].status # "Investigating"].at
    ELSE IF ordered # << >> THEN ordered[1].at ELSE NoneStr

\* next((u["at"] for u in reversed(ordered) if u["status"] == "Resolved"), None),
\* then ordered[-1]["at"] when there is none
resolved_at_of(ordered) ==
    IF \E i \in 1..Len(ordered) : ordered[i].status = "Resolved"
    THEN ordered[CHOOSE i \in 1..Len(ordered) :
                    /\ ordered[i].status = "Resolved"
                    /\ \A j \in (i + 1)..Len(ordered) : ordered[j].status # "Resolved"].at
    ELSE IF ordered # << >> THEN ordered[Len(ordered)].at ELSE NoneStr

\* parse_iso8601 of a string IsoZ made from one of the instants `known`
parse_iso8601(value, known) == CHOOSE dt \in known : IsoZ(dt) = value

downtime_of_updates(impact_window, bound, fallback) == fallback

\* impact_window[bound] if impact_window else fallback
downtime_of(impact_window, bound, fallback) ==
    IF impact_window # None THEN impact_window[bound] ELSE fallback

OptionalDt(dt) == IF dt = NoneDt THEN NoneStr ELSE IsoZ(dt)

finalize_incident(incident) ==
    LET raw == ordered_updates(incident.updates)
        ordered == [i \in 1..Len(raw) |-> render_update(raw[i])]
        started_at == started_at_of(ordered)
        resolved_at == resolved_at_of(ordered)
        impact == parse_impact_window([i \in 1..Len(ordered) |-> ordered[i].message])
    IN  IF impact = ValueError THEN ValueError
        ELSE
        LET impact_window ==
                IF impact # None
                THEN [start_at |-> IsoZ(impact.start_at),
                      end_at |-> IsoZ(impact.end_at),
                      source |-> "postmortem",
                      context |-> impact.context]
                ELSE None
            downtime_start == downtime_of(impact_window, "start_at", started_at)
            downtime_end == downtime_of(impact_window, "end_at", resolved_at)
            known == {raw[i].at : i \in 1..Len(raw)}
                     \cup (IF impact # None THEN {impact.start_at, impact.end_at} ELSE {})
        IN  [id |-> incident.id,
             entry_id |-> incident.entry_id,
             title |-> incident.title,
             url |-> incident.url,
             published_at |-> OptionalDt(incident.published_at),
             updated_at |-> OptionalDt(incident.updated_at),
             status_sequence |-> [i \in 1..Len(ordered) |-> ordered[i].status],
             started_at |-> started_at,
             resolved_at |-> resolved_at,
             impact_window |-> impact_window,
             downtime_start |-> downtime_start,
             downtime_end |-> downtime_end,
             duration_minutes |->
                 IF TruthyStr(downtime_start) /\ TruthyStr(downtime_end)
                 THEN <<parse_iso8601(downtime_end, known)
                        - parse_iso8601(downtime_start, known)>>
                 ELSE << >>,
             updates |-> ordered]

(***************************************************************************)
(* main(): replay, then finalize                                           *)
(***************************************************************************)
FirstAt == Datetime(2025, 1, 13, 23, 44)

SecondAt == Datetime(2025, 1, 14, 0, 28)

FinalizeBlocks ==
    {[at |-> FirstAt, status |-> "Investigating", message |-> PlainMessage],
     [at |-> FirstAt, status |-> "Update", message |-> PlainMessage],
     [at |-> FirstAt, status |-> "Resolved", message |-> "Resolved."],
     [at |-> FirstAt, status |-> "Completed", message |-> "Resolved."],
     [at |-> FirstAt, status |-> "Scheduled", message |-> "Resolved."],
     [at |-> FirstAt, status |-> "Update", message |-> Sentence1(NoSuchDayGroups)],
     [at |-> SecondAt, status |-> "Investigating", message |-> PlainMessage],
     [at |-> SecondAt, status |-> "Update", message |-> Sentence2(TestGroups2)],
     [at |-> SecondAt, status |-> "Resolved", message |-> Sentence1(TestGroups1)],
     [at |-> SecondAt, status |-> "Resolved", message |-> "Resolved."]}

\* Raw entries with at most one update
SingleEntries ==
    {[id |-> IncidentId, entry_id |-> "inc", title |-> "Incident A",
      url |-> "https://s/1", published_at |-> FirstAt, updated_at |-> SecondAt,
      updates |-> parse_updates_blocks(blocks)] :
        blocks \in SeqsUpTo(FinalizeBlocks, 1)}

MergedCount == IF IncidentId \in DOMAIN incidents
               THEN Len(incidents[IncidentId].updates) ELSE 0

MergeSingle ==
    /\ finalized = None
    /\ MergedCount < MaxUpdates
    /\ \E entry \in SingleEntries : MergeEntry(entry) /\ MergeFrame

\* finalized = [finalize_incident(incident) for incident in incidents.values()]
Finalize ==
    /\ IncidentId \in DOMAIN incidents
    /\ finalized = None
    /\ finalized' = finalize_incident(incidents[IncidentId])
    /\ incidents' =
          [incidents EXCEPT ![IncidentId].updates =
              [i \in 1..Len(@) |-> [k |-> @[i].k, v |-> render_update(@[i].v)]]]
    /\ UNCHANGED <<seenPublished, carriers, messages, window>>
    /\ UNCHANGED enrichVars
    /\ UNCHANGED callVars
    /\ UNCHANGED runVars

NextFinalize == MergeSingle \/ Finalize

SpecFinalize == InitMerge /\ [][NextFinalize]_vars

(***************************************************************************)
(* Properties of the finalizer                                             *)
(***************************************************************************)
\* a step in which finalize_incident returned a finalized incident
Finalized == finalized = None /\ finalized' # None /\ finalized' # ValueError

\* the updates of the merged incident before the step, in insertion order
Stored == DictValues(incidents[IncidentId].updates)

Max(S) == CHOOSE x \in S : \A y \in S : x >= y

RankedStatuses == {"Investigating", "Identified", "Monitoring", "Update", "Resolved"}

ClaimedRank(status) ==
    CASE status = "Investigating" -> 0
      [] status = "Identified" -> 1
      [] status = "Monitoring" -> 2
      [] status = "Update" -> 3
      [] status = "Resolved" -> 4
      [] OTHER -> 99

\* timestamp, then status rank, then message text
ClaimedLess(a, b) ==
    \/ a.at < b.at
    \/ a.at = b.at /\ ClaimedRank(a.status) < ClaimedRank(b.status)
    \/ /\ a.at = b.at
       /\ ClaimedRank(a.status) = ClaimedRank(b.status)
       /\ TextLess(a.message, b.message)

\* out is the stored updates, rendered, in an order that never puts an
\* update after one it is less than
OrderedAsClaimed(stored, out) ==
    /\ Len(out) = Len(stored)
    /\ \E q \in Permutations(1..Len(stored)) :
          /\ \A i \in 1..Len(stored) : out[i] = render_update(stored[q[i]])
          /\ \A i, j \in 1..Len(stored) :
                i < j => ~ClaimedLess(stored[q[j]], stored[q[i]])

\* every insertion order of the update map gives the list out
SameForEveryInsertionOrder(updates_by_key, out) ==
    \A q \in Permutations(1..Len(updates_by_key)) :
        LET permuted == [i \in 1..Len(updates_by_key) |-> updates_by_key[q[i]]]
            raw == ordered_updates(permuted)
        IN  out = [i \in 1..Len(raw) |-> render_update(raw[i])]

PrecedesResolved(out, statuses) ==
    \A i, j \in 1..Len(out) :
        (/\ out[i].at = out[j].at
         /\ out[i].status \in statuses
         /\ out[j].status = "Resolved")
        => i < j

FollowsResolved(out) ==
    \A i, j \in 1..Len(out) :
        (/\ out[i].at = out[j].at
         /\ out[i].status \notin RankedStatuses
         /\ out[j].status = "Resolved")
        => j < i

NoTwoOfEqualSortKey(stored) ==
    \A i, j \in 1..Len(stored) :
        i # j => (ClaimedLess(stored[i], stored[j]) \/ ClaimedLess(stored[j], stored[i]))

\* C5 as stated: the updates are ordered by timestamp, status rank and
\* message; the list is the same for every insertion order of the update
\* map; at one timestamp every update that is not Resolved precedes a
\* Resolved one.
C5_OrderedAnyStatus ==
    [][Finalized =>
        /\ OrderedAsClaimed(Stored, finalized'.updates)
        /\ SameForEveryInsertionOrder(incidents[IncidentId].updates, finalized'.updates)
        /\ PrecedesResolved(finalized'.updates,
                            {u.status : u \in Range(Stored)} \ {"Resolved"})]_vars

\* C5 as amended: the updates are ordered by timestamp, then status rank
\* (the five labels 0..4, any other label 99), then message; the list is the
\* same for every insertion order whenever no two updates share timestamp,
\* rank and message (so whenever every status is one of the five labels); at
\* one timestamp an update with one of the four other ranked labels precedes
\* a Resolved one and an update with any other label follows it.
C5_OrderedByRank ==
    [][Finalized =>
        /\ OrderedAsClaimed(Stored, finalized'.updates)
        /\ NoTwoOfEqualSortKey(Stored) =>
              SameForEveryInsertionOrder(incidents[IncidentId].updates,
                                         finalized'.updates)
        /\ (\A u \in Range(Stored) : u.status \in RankedStatuses) =>
              NoTwoOfEqualSortKey(Stored)
        /\ PrecedesResolved(finalized'.updates, RankedStatuses \ {"Resolved"})
        /\ FollowsResolved(finalized'.updates)]_vars

\* Update, Resolved and Completed at one timestamp, stored Completed first
C5_Witness ==
    /\ finalized # None
    /\ finalized # ValueError
    /\ finalized.status_sequence = <<"Update", "Resolved", "Completed">>
    /\ \A i \in 1..3 : finalized.updates[i].at = IsoZ(FirstAt)
    /\ incidents[IncidentId].updates[1].v.status = "Completed"

\* C6: started_at is the timestamp of the earliest Investigating update, or
\* of the earliest update when there is none; resolved_at is the timestamp of
\* the latest Resolved update, or of the latest update when there is none;
\* both are absent exactly when there is no update.
C6_StartedResolved ==
    [][Finalized =>
        LET ats(S) == {u.at : u \in S}
            all == Range(Stored)
            investigating == {u \in all : u.status = "Investigating"}
            resolved == {u \in all : u.status = "Resolved"}
        IN  /\ finalized'.started_at =
                  IF investigating # {} THEN IsoZ(Min(ats(investigating)))
                  ELSE IF all # {} THEN IsoZ(Min(ats(all))) ELSE NoneStr
            /\ finalized'.resolved_at =
                  IF resolved # {} THEN IsoZ(Max(ats(resolved)))
                  ELSE IF all # {} THEN IsoZ(Max(ats(all))) ELSE NoneStr
            /\ (finalized'.started_at = NoneStr) = (all = {})
            /\ (finalized'.resolved_at = NoneStr) = (all = {})]_vars

\* the only Investigating update is later than the only Resolved one
C6_Witness ==
    /\ finalized # None
    /\ finalized # ValueError
    /\ Len(finalized.updates) = 3
    /\ finalized.started_at = IsoZ(SecondAt)
    /\ finalized.resolved_at = IsoZ(FirstAt)

\* C7: when a message matches a template, impact_window is present and
\* downtime_start/downtime_end are the bounds of the window of the first
\* matching message in chronological (update) order; otherwise impact_window
\* is absent and downtime_start/downtime_end are started_at/resolved_at.
C7_DowntimePrefersWindow ==
    [][Finalized =>
        LET matching == {u \in Range(Stored) : MessageMatches(u.message)}
            f == finalized'
        IN  IF matching # {}
            THEN /\ f.impact_window # None
                 /\ \E u \in matching :
                       /\ \A v \in matching : ~ClaimedLess(v, u)
                       /\ LET g == IF IMPACT_RE_1_search(u.message) # None
                                   THEN IMPACT_RE_1_search(u.message)
                                   ELSE IMPACT_RE_2_search(u.message)
                              w == window_of_match(g, u.message)
                          IN  /\ f.downtime_start = IsoZ(w.start_at)
                              /\ f.downtime_end = IsoZ(w.end_at)
                              /\ f.impact_window.start_at = f.downtime_start
                              /\ f.impact_window.end_at = f.downtime_end
                              /\ f.impact_window.context = u.message
            ELSE /\ f.impact_window = None
                 /\ f.downtime_start = f.started_at
                 /\ f.downtime_end = f.resolved_at]_vars

\* the postmortem sentence of the second of two matching updates is not used
C7_Witness ==
    /\ finalized # None
    /\ finalized # ValueError
    /\ finalized.status_sequence = <<"Investigating", "Update", "Resolved">>
    /\ finalized.updates[2].message = Sentence2(TestGroups2)
    /\ finalized.updates[3].message = Sentence1(TestGroups1)
    /\ finalized.downtime_start = IsoZ(Datetime(2024, 1, 28, 1, 0))
    /\ finalized.downtime_start # finalized.started_at

(***************************************************************************)
(* Impact enrichment: load_impact_cache, save_impact_cache, enrich_impacts *)
(***************************************************************************)
\* The "components" value of a cache entry, of an extraction or of an
\* incident: the key is missing, the value is None (JSON null), or a list
NoKey == [tag |-> "missing"]
Null == [tag |-> "null"]
List(parts) == [tag |-> "list", parts |-> parts]

\* entry.get("components") is not None
IsNotNone(components) == components.tag = "list"

\* truth value of entry.get("components")
TruthyList(components) == components.tag = "list" /\ components.parts # << >>

\* The file at the cache path: absent, not a JSON object, a JSON object of
\* url -> entry (no "items" key), or {"version": 1, "items": {url -> entry}}
MissingFile == [kind |-> "missing"]
CorruptFile == [kind |-> "corrupt"]
Flat(items) == [kind |-> "flat", items |-> items]
Versioned(items) == [kind |-> "v1", items |-> items]

FileNotFoundError == [raised |-> "FileNotFoundError"]

DefaultCachePath == ".cache/impact.json"

\* --impact-cache: empty, a bare file name, the default
CachePaths == {"", "impact.json", DefaultCachePath}

\* os.path.dirname
dirname(path) == IF path = DefaultCachePath THEN ".cache" ELSE ""

load_impact_cache(path, file) ==
    IF path = "" \/ file.kind = "missing" THEN << >>
    ELSE IF file.kind = "corrupt" THEN << >>
    ELSE file.items

\* The file after save_impact_cache(path, items), or the exception of
\* os.makedirs("")
save_impact_cache(path, file, items) ==
    IF path = "" THEN file
    ELSE IF dirname(path) = "" THEN FileNotFoundError
    ELSE Versioned(items)

save_only_at_return(path, file, items) == file

\* the save of the loop body, after a page was fetched
save_after_fetch(path, file, items) == save_impact_cache(path, file, items)

copy_nothing(incident, cached) == incident

\* cache.get(url)
cache_get(items, url) ==
    IF url \in DictKeys(items) THEN DictValue(items, url) ELSE None

\* the incident after the copy of the truthy cached values
copy_cached(incident, cached) ==
    IF cached = None THEN incident
    ELSE [incident EXCEPT
            !.impact = IF TruthyStr(cached.impact) THEN cached.impact ELSE @,
            !.components = IF TruthyList(cached.components)
                           THEN cached.components ELSE @]

\* if cached and cached.get("impact") and cached.get("components") is not None
served_from_cache(cached) ==
    /\ cached # None
    /\ TruthyStr(cached.impact)
    /\ IsNotNone(cached.components)

IncidentUrls == {"https://s/1", "https://s/2"}

\* finalize_incident's result carries a url (maybe None) and neither an
\* impact nor components
FinalizedIncidents ==
    {[url |-> u, impact |-> NoneStr, components |-> NoKey] :
        u \in IncidentUrls \cup {NoneStr}}

\* extract_components_from_html returns a non-empty list or None
ExtractedComponents == {Null, List(<<"Git Operations">>)}

ExtractedImpacts == {NoneStr, "major"}

\* fetch_url raises URLError/HTTPError, raises another exception (a timeout
\* while the body is read), or returns a page
FetchOutcomes ==
    {[kind |-> "URLError"], [kind |-> "timeout"]} \cup
    {[kind |-> "html", impact |-> i, components |-> c] :
        i \in ExtractedImpacts, c \in ExtractedComponents}

\* Entries an earlier run, or an earlier version of the script, left behind
CachedEntries ==
    {[impact |-> i, components |-> c, fetched_at |-> "earlier"] :
        i \in ExtractedImpacts,
        c \in ExtractedComponents \cup {NoKey, List(<< >>)}}

CachedItems ==
    {<< >>} \cup {<<[k |-> "https://s/1", v |-> e]>> : e \in CachedEntries}

CacheFiles ==
    {MissingFile, CorruptFile} \cup {Flat(items) : items \in CachedItems}
        \cup {Versioned(items) : items \in CachedItems}

InitEnrich ==
    /\ incidents = << >>
    /\ seenPublished = {}
    /\ carriers = << >>
    /\ finalized = None
    /\ messages = << >>
    /\ window = None
    /\ cache_path \in CachePaths
    /\ disk \in CacheFiles
    /\ cache = << >>
    /\ enriched \in SeqsUpTo(FinalizedIncidents, MaxIncidents)
    /\ cursor = 0
    /\ phase = "start"
    /\ updated = FALSE
    /\ fetched = {}
    /\ fetchedOk = << >>
    /\ CallIdle
    /\ RunIdle

\* cache = load_impact_cache(cache_path); updated = False
EnrichLoad ==
    /\ phase = "start"
    /\ cache' = load_impact_cache(cache_path, disk)
    /\ updated' = FALSE
    /\ cursor' = 1
    /\ phase' = "loop"
    /\ UNCHANGED <<cache_path, disk, enriched, fetched, fetchedOk>>
    /\ UNCHANGED mainVars
    /\ UNCHANGED callVars
    /\ UNCHANGED runVars

\* one iteration that ends at a continue before fetch_url: no url, or the
\* incident is served from the cache
EnrichContinue ==
    /\ phase = "loop"
    /\ cursor <= Len(enriched)
    /\ LET incident == enriched[cursor]
           cached == cache_get(cache, incident.url)
       IN  /\ ~TruthyStr(incident.url) \/ served_from_cache(cached)
           /\ enriched' =
                 IF TruthyStr(incident.url)
                 THEN [enriched EXCEPT ![cursor] = copy_cached(incident, cached)]
                 ELSE enriched
    /\ cursor' = cursor + 1
    /\ UNCHANGED <<cache_path, disk, cache, phase, updated, fetched, fetchedOk>>
    /\ UNCHANGED mainVars
    /\ UNCHANGED callVars
    /\ UNCHANGED runVars

\* one iteration that reaches fetch_url
EnrichFetch ==
    /\ phase = "loop"
    /\ cursor <= Len(enriched)
    /\ LET incident == enriched[cursor]
           url == incident.url
           cached == cache_get(cache, url)
           copied == copy_cached(incident, cached)
       IN  /\ TruthyStr(url)
           /\ ~served_from_cache(cached)
           /\ \E outcome \in FetchOutcomes :
               /\ fetched' = fetched \cup {<<cursor, outcome.kind>>}
               /\
                 CASE outcome.kind = "URLError" ->
                        /\ enriched' = [enriched EXCEPT ![cursor] = copied]
                        /\ cursor' = cursor + 1
                        /\ UNCHANGED <<disk, cache, phase, updated, fetchedOk>>
                   [] outcome.kind = "timeout" ->
                        /\ enriched' = [enriched EXCEPT ![cursor] = copied]
                        /\ phase' = "raised"
                        /\ UNCHANGED <<disk, cache, cursor, updated, fetchedOk>>
                   [] outcome.kind = "html" ->
                        LET entry == [impact |-> outcome.impact,
                                      components |-> outcome.components,
                                      fetched_at |-> "now"]
                            items == DictSet(cache, url, entry)
                            saved == save_after_fetch(cache_path, disk, items)
                        IN  /\ enriched' =
                                  [enriched EXCEPT ![cursor] =
                                      [copied EXCEPT
                                          !.impact =
                                              IF TruthyStr(outcome.impact)
                                              THEN outcome.impact ELSE @,
                                          !.components =
                                              IF TruthyList(outcome.components)
                                              THEN outcome.components ELSE @]]
                            /\ cache' = items
                            /\ updated' = TRUE
                            /\ fetchedOk' = DictSet(fetchedOk, url, entry)
                            /\ IF saved = FileNotFoundError
                               THEN /\ phase' = "raised"
                                    /\ UNCHANGED <<disk, cursor>>
                               ELSE /\ disk' = saved
                                    /\ cursor' = cursor + 1
                                    /\ UNCHANGED phase
    /\ UNCHANGED cache_path
    /\ UNCHANGED mainVars
    /\ UNCHANGED callVars
    /\ UNCHANGED runVars

\* after the loop: if updated: save_impact_cache(cache_path, cache)
EnrichReturn ==
    /\ phase = "loop"
    /\ cursor > Len(enriched)
    /\ LET saved == IF updated THEN save_impact_cache(cache_path, disk, cache)
                    ELSE disk
       IN  IF saved = FileNotFoundError
           THEN phase' = "raised" /\ UNCHANGED disk
           ELSE phase' = "done" /\ disk' = saved
    /\ UNCHANGED <<cache_path, cache, enriched, cursor, updated, fetched, fetchedOk>>
    /\ UNCHANGED mainVars
    /\ UNCHANGED callVars
    /\ UNCHANGED runVars

NextEnrich == EnrichLoad \/ EnrichContinue \/ EnrichFetch \/ EnrichReturn

SpecEnrich == InitEnrich /\ [][NextEnrich]_vars

(***************************************************************************)
(* Properties of the impact enrichment                                     *)
(***************************************************************************)
\* The cache holds, for the url, an entry with an impact and a recorded
\* components result: None ("no components found") and a list both count
RecordedInCache(url) ==
    /\ url \in DictKeys(cache)
    /\ DictValue(cache, url).impact # NoneStr
    /\ DictValue(cache, url).components # NoKey

\* C9: enrich_impacts calls fetch_url for no incident whose url has a cache
\* entry with a non-absent impact and a recorded components result, a
\* recorded "no components found" included.
C9_NoFetchWhenRecorded ==
    [][fetched' # fetched => ~RecordedInCache(enriched[cursor].url)]_vars

\* C10: with a cache path set, between two incidents and at the return, once
\* a page was fetched the file is the versioned document of the in-memory
\* cache, and holds for every fetched url the entry made of its last page.
C10_SavedAfterEachFetch ==
    (phase \in {"loop", "done"} /\ cache_path # "" /\ fetchedOk # << >>) =>
        /\ disk = Versioned(cache)
        /\ \A url \in DictKeys(fetchedOk) :
              /\ url \in DictKeys(disk.items)
              /\ DictValue(disk.items, url) = DictValue(fetchedOk, url)

\* the first of two incidents was fetched and the second is not yet processed
C10_Witness ==
    /\ phase = "loop"
    /\ cache_path = DefaultCachePath
    /\ Len(enriched) = 2
    /\ cursor = 2
    /\ fetched = {<<1, "html">>}
    /\ DictKeys(fetchedOk) = {"https://s/2"}
    /\ DictKeys(disk.items) = {"https://s/1", "https://s/2"}
    /\ DictValue(disk.items, "https://s/2").fetched_at = "now"

\* the step is a loop iteration whose fetch_url raised URLError
FetchFailed == \E i \in 1..Len(enriched) : <<i, "URLError">> \in fetched' \ fetched

FullScore == 100

\* a span the model returns without a "confidence"
Unscored == [text |-> "span"]

Scored(confidence) == [text |-> "span", confidence |-> confidence]

\* The value of one label in the model's answer
ItemLists ==
    {<< >>, <<Unscored>>, <<Scored(30)>>, <<Scored(50)>>,
     <<Scored(30), Scored(90)>>, <<Unscored, Scored(30)>>}

InferLabels == {"Git Operations", "Webhooks", "Copilot"}

RECURSIVE DictsOver(_, _, _)
\* the dicts of at most n keys of K, in every insertion order, values in V
DictsOver(K, V, n) ==
    IF n = 0 THEN {<< >>}
    ELSE LET shorter == DictsOver(K, V, n - 1)
             longest == {d \in shorter : Len(d) = n - 1}
         IN  shorter \cup
             UNION {{Append(d, [k |-> key, v |-> value]) :
                        key \in K \ DictKeys(d), value \in V} : d \in longest}

\* result.get("entities", {})
EntityDicts == DictsOver(InferLabels, ItemLists, MaxLabels)

RECURSIVE max_conf_of(_, _)
\* the loop over the items of one label; NoneDt is max_conf = None
max_conf_of(items, max_conf) ==
    IF items = << >> THEN max_conf
    ELSE LET item == Head(items)
             floor == IF max_conf = NoneDt THEN 0 ELSE max_conf
             next == IF "confidence" \in DOMAIN item
                     THEN IF item.confidence > floor THEN item.confidence ELSE floor
                     ELSE max_conf
         IN  max_conf_of(Tail(items), next)

\* confidences[label] of a label whose items are truthy
confidence_of(items) ==
    LET max_conf == max_conf_of(items, NoneDt)
    IN  IF max_conf = NoneDt THEN FullScore ELSE max_conf

RECURSIVE select_components_from_entities(_, _)
\* [selected, confidences], in the order of the entities
select_components_from_entities(entities, threshold) ==
    IF entities = << >> THEN [selected |-> << >>, confidences |-> << >>]
    ELSE LET front == select_components_from_entities(
                          SubSeq(entities, 1, Len(entities) - 1), threshold)
             last == entities[Len(entities)]
         IN  IF last.v = << >> THEN front
             ELSE [selected |->
                       IF confidence_of(last.v) >= threshold
                       THEN Append(front.selected, last.k) ELSE front.selected,
                   confidences |->
                       DictSet(front.confidences, last.k, confidence_of(last.v))]

\* The labels whose alias patterns match a part of the text
Mentions(part) ==
    CASE part = "git push fails" -> {"Git Operations"}
      [] part = "Webhooks delayed" -> {"Webhooks"}
      [] OTHER -> {}

\* any(re.search(pattern, text, re.IGNORECASE) for pattern in patterns)
alias_matches(label, text) == \E i \in 1..Len(text) : label \in Mentions(text[i])

filter_nothing(components, text) == components

\* the labels of components that match; an empty list stands for None
filter_components_by_alias(components, text) ==
    IF components = << >> \/ text = << >> THEN << >>
    ELSE SelectSeq(components, LAMBDA label : alias_matches(label, text))

\* title and the messages of the updates that are not Resolved, the empty
\* ones dropped; the text is their join with " "
inference_text(incident) ==
    LET open == SelectSeq(incident.updates,
                          LAMBDA u : u.status # "Resolved" /\ u.message # "")
    IN  (IF incident.title = "" THEN << >> ELSE <<incident.title>>)
        \o [i \in 1..Len(open) |-> open[i].message]

never_has_components(incident) == FALSE

\* if incident.get("components"): return
has_components(incident) == TruthyList(incident.components)

RECURSIVE confidences_of(_, _)
\* {label: confidences[label] for label in components if label in confidences}
confidences_of(components, confidences) ==
    IF components = << >> THEN << >>
    ELSE LET front == confidences_of(SubSeq(components, 1, Len(components) - 1),
                                     confidences)
             label == components[Len(components)]
         IN  IF label \in DictKeys(confidences)
             THEN DictSet(front, label, DictValue(confidences, label))
             ELSE front

\* The incident after the call and whether model.extract_entities was called;
\* entities is what the model answers when it is asked
infer_components_with_gliner2(incident, gliner, threshold, entities) ==
    LET text == inference_text(incident)
        chosen == select_components_from_entities(entities, threshold)
        components == filter_components_by_alias(chosen.selected, text)
    IN  IF has_components(incident) \/ gliner # "loaded" \/ text = << >>
        THEN [incident |-> incident, invoked |-> FALSE]
        ELSE [incident |->
                  IF components # << >>
                  THEN [incident EXCEPT
                          !.components = List(components),
                          !.components_source = "gliner2",
                          !.components_confidence =
                              confidences_of(components, chosen.confidences)]
                  ELSE incident,
              invoked |-> TRUE]

\* Incidents handed to the inference: finalized, maybe enriched
InferUpdates ==
    {<< >>,
     <<[status |-> "Investigating", message |-> "We are investigating."],
       [status |-> "Resolved", message |-> "git push fails"]>>,
     <<[status |-> "Investigating", message |-> "git push fails"],
       [status |-> "Resolved", message |-> "Resolved."]>>}

InferIncidents ==
    [title : {"", "Webhooks delayed"},
     updates : InferUpdates,
     components : {NoKey, List(<<"Copilot">>)},
     components_source : {NoneStr},
     components_confidence : {None}]

\* --gliner-threshold
Thresholds == {50, FullScore}

InitInfer ==
    /\ incidents = << >>
    /\ seenPublished = {}
    /\ carriers = << >>
    /\ finalized = None
    /\ messages = << >>
    /\ window = None
    /\ EnrichIdle
    /\ RunIdle
    /\ input \in [incident : InferIncidents,
                  gliner : {"missing", "loaded"},
                  threshold : Thresholds]
    /\ output = None

\* infer_components_with_gliner2(incident, model_name, threshold)
InferComponents ==
    /\ output = None
    /\ \E entities \in EntityDicts :
          output' = [value |-> infer_components_with_gliner2(
                                   input.incident, input.gliner,
                                   input.threshold, entities),
                     entities |-> entities]
    /\ UNCHANGED input
    /\ UNCHANGED <<mainVars, enrichVars, runVars>>

NextInfer == InferComponents

SpecInfer == InitInfer /\ [][NextInfer]_vars

(***************************************************************************)
(* Properties of the component inference                                   *)
(***************************************************************************)
\* C12: an incident that has a non-empty components list is left as it was
\* by the inference, and the model is not invoked for it.
C12_ExplicitComponentsUntouched ==
    (output # None /\ input.incident.components \notin {NoKey, Null, List(<< >>)}) =>
        /\ ~output.value.invoked
        /\ output.value.incident = input.incident
        /\ output.value.incident.components_source = NoneStr
        /\ output.value.incident.components_confidence = None

\* the model is installed, the text mentions a label, the incident has
\* components already
C12_Witness ==
    /\ output # None
    /\ input.gliner = "loaded"
    /\ input.incident.components = List(<<"Copilot">>)
    /\ input.incident.title = "Webhooks delayed"
    /\ output.entities = <<[k |-> "Webhooks", v |-> <<Unscored>>]>>

\* the score the claim gives a label: the maximum span confidence, 1.0 when
\* no span carries one
ClaimedScore(items) ==
    LET scores == {items[i].confidence :
                      i \in {j \in 1..Len(items) : "confidence" \in DOMAIN items[j]}}
    IN  IF scores = {} THEN FullScore ELSE Max(scores)

\* the labels that survive: answered with spans, scored at or above the
\* threshold, and with an alias pattern matching the inference text
Survivors ==
    {label \in DictKeys(output.entities) :
        LET items == DictValue(output.entities, label)
        IN  /\ items # << >>
            /\ ClaimedScore(items) >= input.threshold
            /\ \E part \in Range(inference_text(input.incident)) :
                  label \in Mentions(part)}

\* C13: after the inference on an incident without components, either no
\* label survives and the incident is as it was, or components is a
\* non-empty list of exactly the surviving labels, components_source is
\* "gliner2" and components_confidence has exactly the surviving labels as
\* keys, each with its score.
C13_OnlySurvivorsWritten ==
    (output # None /\ input.incident.components \in {NoKey, Null, List(<< >>)}) =>
        LET after == output.value.incident
        IN  IF ~output.value.invoked \/ Survivors = {}
            THEN after = input.incident
            ELSE /\ after.components.tag = "list"
                 /\ after.components.parts # << >>
                 /\ Range(after.components.parts) = Survivors
                 /\ Len(after.components.parts) = Cardinality(Survivors)
                 /\ after.components_source = "gliner2"
                 /\ DictKeys(after.components_confidence) = Survivors
                 /\ \A label \in Survivors :
                       DictValue(after.components_confidence, label) =
                           ClaimedScore(DictValue(output.entities, label))

\* two labels are answered above the threshold, one of them is mentioned by
\* the text, and it alone is written
C13_Witness ==
    /\ output # None
    /\ input.threshold = 50
    /\ output.entities = <<[k |-> "Copilot", v |-> <<Unscored>>],
                           [k |-> "Git Operations", v |-> <<Scored(30), Scored(90)>>]>>
    /\ output.value.incident.components = List(<<"Git Operations">>)
    /\ output.value.incident.components_confidence =
           <<[k |-> "Git Operations", v |-> 90]>>

(***************************************************************************)
(* overlaps_window                                                         *)
(***************************************************************************)
\* Instants of the window filter
WindowTimes == 1..(MaxTime + 1)

\* incident.get(a) or incident.get(b), on strings
StrOr(a, b) == IF TruthyStr(a) THEN a ELSE b

dt_before_or_equal(a, b) == a <= b

\* a < b on datetimes
dt_before(a, b) == a < b

overlaps_window(incident, since_dt, until_dt) ==
    IF since_dt = NoneDt /\ until_dt = NoneDt THEN TRUE
    ELSE LET start == StrOr(incident.downtime_start, incident.published_at)
             end == StrOr(StrOr(incident.downtime_end, incident.updated_at), start)
         IN  IF ~TruthyStr(start) THEN FALSE
             ELSE LET start_dt == parse_iso8601(start, WindowTimes)
                      end_dt == IF TruthyStr(end)
                                THEN parse_iso8601(end, WindowTimes) ELSE start_dt
                  IN  IF since_dt # NoneDt /\ dt_before(end_dt, since_dt) THEN FALSE
                      ELSE IF until_dt # NoneDt /\ dt_before(until_dt, start_dt)
                           THEN FALSE
                           ELSE TRUE

\* timestamps of a finalized incident: None or an ISO string
WindowStamps == {NoneStr} \cup {IsoZ(t) : t \in WindowTimes}

InitOverlaps ==
    /\ incidents = << >>
    /\ seenPublished = {}
    /\ carriers = << >>
    /\ finalized = None
    /\ messages = << >>
    /\ window = None
    /\ EnrichIdle
    /\ RunIdle
    /\ input \in [incident : [downtime_start : WindowStamps,
                              downtime_end : WindowStamps,
                              published_at : WindowStamps,
                              updated_at : WindowStamps],
                  since_dt : {NoneDt} \cup WindowTimes,
                  until_dt : {NoneDt} \cup WindowTimes]
    /\ output = None

OverlapsWindow ==
    /\ output = None
    /\ output' = [value |-> overlaps_window(input.incident, input.since_dt,
                                            input.until_dt)]
    /\ UNCHANGED input
    /\ UNCHANGED <<mainVars, enrichVars, runVars>>

NextOverlaps == OverlapsWindow

SpecOverlaps == InitOverlaps /\ [][NextOverlaps]_vars

\* the instant an ISO string of the model stands for
InstantOf(stamp) == CHOOSE t \in WindowTimes : ToString(t) \o "Z" = stamp

\* C17: with at least one bound given, overlaps_window is true exactly when
\* the incident has a start (downtime_start, else published_at), the start is
\* at or before until when until is given, and the end (downtime_end, else
\* updated_at, else the start) is at or after since when since is given.
C17_OverlapsInclusive ==
    (output # None /\ (input.since_dt # NoneDt \/ input.until_dt # NoneDt)) =>
        LET i == input.incident
            start == IF i.downtime_start # NoneStr THEN i.downtime_start
                     ELSE i.published_at
            end == IF i.downtime_end # NoneStr THEN i.downtime_end
                   ELSE IF i.updated_at # NoneStr THEN i.updated_at ELSE start
        IN  output.value =
               (/\ start # NoneStr
                /\ input.until_dt # NoneDt => InstantOf(start) <= input.until_dt
                /\ input.since_dt # NoneDt => InstantOf(end) >= input.since_dt)

\* the incident starts at until and ends at since: both bounds are inclusive
C17_Witness ==
    /\ output # None
    /\ output.value = TRUE
    /\ input.incident.downtime_start = IsoZ(2)
    /\ input.incident.downtime_end = IsoZ(2)
    /\ input.since_dt = 2
    /\ input.until_dt = 2

(***************************************************************************)
(* infer_year                                                              *)
(***************************************************************************)
candidate_years_forward(year) == <<year, year + 1>>

\* (reference_dt.year - 1, reference_dt.year, reference_dt.year + 1)
candidate_years(year) == <<year - 1, year, year + 1>>

Abs(n) == IF n < 0 THEN -n ELSE n

\* reference_dt is given by its fields; the result is NoneDt or the datetime
infer_year(reference, month, day, hour, minute) ==
    LET reference_dt == Datetime(reference.year, reference.month, reference.day,
                                 reference.hour, reference.minute)
        years == candidate_years(reference.year)
        valid == SelectSeq(years,
                     LAMBDA year : DatetimeValid(year, month, day, hour, minute))
        candidates == [i \in 1..Len(valid) |->
                          LET dt == Datetime(valid[i], month, day, hour, minute)
                          IN  [delta |-> Abs(dt - reference_dt), dt |-> dt]]
        sorted == StableSort(candidates,
                     [i \in 1..Len(candidates) |->
                         [j \in 1..Len(candidates) |->
                             candidates[i].delta < candidates[j].delta]])
    IN  IF candidates = << >> THEN NoneDt ELSE sorted[1].dt

\* Reference instants: the one of the test, a leap-year one, year ends
References ==
    {[year |-> 2025, month |-> 1, day |-> 2, hour |-> 12, minute |-> 0],
     [year |-> 2024, month |-> 3, day |-> 1, hour |-> 0, minute |-> 0],
     [year |-> 2023, month |-> 12, day |-> 31, hour |-> 23, minute |-> 30],
     [year |-> 2022, month |-> 7, day |-> 2, hour |-> 12, minute |-> 0]}

InitInferYear ==
    /\ incidents = << >>
    /\ seenPublished = {}
    /\ carriers = << >>
    /\ finalized = None
    /\ messages = << >>
    /\ window = None
    /\ EnrichIdle
    /\ RunIdle
    /\ input \in [reference : References,
                  month : {1, 2, 7, 12},
                  day : {1, 2, 29, 30, 31},
                  hour : {0, 12, 23},
                  minute : {0}]
    /\ output = None

InferYear ==
    /\ output = None
    /\ output' = [value |-> infer_year(input.reference, input.month, input.day,
                                       input.hour, input.minute)]
    /\ UNCHANGED input
    /\ UNCHANGED <<mainVars, enrichVars, runVars>>

NextInferYear == InferYear

SpecInferYear == InitInferYear /\ [][NextInferYear]_vars

\* the years around the reference in which the month/day/time exists
ValidYears ==
    {year \in {input.reference.year - 1, input.reference.year,
               input.reference.year + 1} :
        /\ input.month \in 1..12
        /\ input.day >= 1
        /\ input.day <= DaysInMonth(year, input.month)}

\* distance, in minutes, of the candidate of a year to the reference
DistanceOf(year) ==
    Abs(Datetime(year, input.month, input.day, input.hour, input.minute)
        - Datetime(input.reference.year, input.reference.month,
                   input.reference.day, input.reference.hour,
                   input.reference.minute))

\* C18: infer_year returns a valid candidate of the years reference-1,
\* reference, reference+1 whose distance to the reference is the smallest,
\* and returns nothing only when no candidate is a valid date.
C18_NearestCandidate ==
    output # None =>
        IF ValidYears = {} THEN output.value = NoneDt
        ELSE \E year \in ValidYears :
                /\ output.value = Datetime(year, input.month, input.day,
                                           input.hour, input.minute)
                /\ \A other \in ValidYears : DistanceOf(year) <= DistanceOf(other)

\* Dec 31 23:00 against Jan 2 2025 12:00 is in 2024
C18_Witness ==
    /\ output # None
    /\ input.reference = [year |-> 2025, month |-> 1, day |-> 2,
                          hour |-> 12, minute |-> 0]
    /\ input.month = 12 /\ input.day = 31 /\ input.hour = 23
    /\ output.value = Datetime(2024, 12, 31, 23, 0)

(***************************************************************************)
(* build_segments                                                          *)
(***************************************************************************)
segment_status_of_later(updates, idx) == updates[idx + 1].status

\* update["status"], idx counted from 1
segment_status(updates, idx) == updates[idx].status

build_segments(incident) ==
    LET updates == incident.updates
        count == IF Len(updates) = 0 THEN 0 ELSE Len(updates) - 1
    IN  [idx \in 1..count |->
            [incident_id |-> incident.id,
             start_at |-> updates[idx].at,
             end_at |-> updates[idx + 1].at,
             status |-> segment_status(updates, idx)]]

\* The updates of the test, and one more
SegmentUpdates ==
    {[at |-> "2025-01-01T00:00:00Z", status |-> "Investigating", message |-> "Start."],
     [at |-> "2025-01-01T00:10:00Z", status |-> "Update", message |-> "Update."],
     [at |-> "2025-01-01T00:20:00Z", status |-> "Resolved", message |-> "Done."],
     [at |-> "2025-01-01T00:20:00Z", status |-> "Monitoring", message |-> "Watch."]}

InitSegments ==
    /\ incidents = << >>
    /\ seenPublished = {}
    /\ carriers = << >>
    /\ finalized = None
    /\ messages = << >>
    /\ window = None
    /\ EnrichIdle
    /\ RunIdle
    /\ input \in [id : {"seg-test"},
                  updates : SeqsUpTo(SegmentUpdates, MaxUpdates)]
    /\ output = None

BuildSegments ==
    /\ output = None
    /\ output' = [value |-> build_segments(input)]
    /\ UNCHANGED input
    /\ UNCHANGED <<mainVars, enrichVars, runVars>>

NextSegments == BuildSegments

SpecSegments == InitSegments /\ [][NextSegments]_vars

\* C19: build_segments on N updates returns N-1 segments, none for N <= 1;
\* the i-th starts at update i's timestamp, ends at update i+1's timestamp,
\* and carries update i's status and the incident's id.
C19_SegmentsBetweenUpdates ==
    output # None =>
        LET n == Len(input.updates)
            segments == output.value
        IN  /\ Len(segments) = IF n <= 1 THEN 0 ELSE n - 1
            /\ \A i \in 1..Len(segments) :
                  /\ segments[i].start_at = input.updates[i].at
                  /\ segments[i].end_at = input.updates[i + 1].at
                  /\ segments[i].status = input.updates[i].status
                  /\ segments[i].incident_id = input.id

\* the three updates of the test give two segments
C19_Witness ==
    /\ output # None
    /\ Len(input.updates) = 3
    /\ input.updates[1].status = "Investigating"
    /\ input.updates[2].status = "Update"
    /\ input.updates[3].status = "Resolved"
    /\ Len(output.value) = 2
    /\ output.value[2].end_at = "2025-01-01T00:20:00Z"

(***************************************************************************)
(* main(): git log, replay of the revisions, finalize, write the outputs   *)
(* (without --since/--until, --enrich-impact and component inference)      *)
(***************************************************************************)
\* An entry of a feed revision
RunEntry(id, blocks) ==
    [id |-> id, entry_id |-> id, title |-> "Incident A", url |-> "https://s/1",
     published_at |-> FirstAt, updated_at |-> SecondAt,
     updates |-> parse_updates_blocks(blocks)]

Opening == [at |-> FirstAt, status |-> "Investigating", message |-> PlainMessage]

Closing == [at |-> SecondAt, status |-> "Resolved", message |-> "Resolved."]

\* What git show gives for a revision: it fails, or the feed parses to entries
Unreadable == [readable |-> FALSE]

Readable(entries) == [readable |-> TRUE, entries |-> entries]

Revisions ==
    {Unreadable,
     Readable(<< >>),
     Readable(<<RunEntry("inc", <<Opening>>)>>),
     Readable(<<RunEntry("inc", <<Closing, Opening>>)>>),
     Readable(<<RunEntry("other", << >>)>>),
     Readable(<<RunEntry("inc", <<Opening>>), RunEntry("other", <<Closing>>)>>)}

\* run_git(["log", ...]): a non-zero return code, or the revisions touching
\* the path, newest first (none when the path has no history)
GitLogResults ==
    {[returncode |-> 128]} \cup
    {[returncode |-> 0, lines |-> lines] : lines \in SeqsUpTo(Revisions, MaxCommits)}

\* commits.reverse()
Reverse(s) == [i \in 1..Len(s) |-> s[Len(s) + 1 - i]]

RunOptions ==
    [incidents_format : {"jsonl", "split", "json"},
     no_segments : BOOLEAN,
     no_windows : BOOLEAN]

RECURSIVE replay_entries(_, _)
\* for entry in parse_atom(atom_content): incidents[id] = merge_incident(...)
replay_entries(d, entries) ==
    IF entries = << >> THEN d
    ELSE LET entry == Head(entries)
             merged == [i \in DOMAIN d \cup {entry.id} |->
                           IF i = entry.id
                           THEN merge_incident(IncidentsGet(d, entry.id), entry)
                           ELSE d[i]]
         IN  replay_entries(merged, Tail(entries))

RECURSIVE SumOver(_, _)
SumOver(f, S) ==
    IF S = {} THEN 0
    ELSE LET x == CHOOSE y \in S : TRUE IN f[x] + SumOver(f, S \ {x})

\* The files main() writes, each with the number of its records
written_files(results, opts) ==
    LET ids == DOMAIN results
        incidentFiles ==
            IF opts.incidents_format = "json" THEN {"out/incidents.json"}
            ELSE IF opts.incidents_format = "jsonl" THEN {"out/incidents.jsonl"}
            ELSE {"out/incidents/" \o id \o ".json" : id \in ids}
        segmentFiles == IF opts.no_segments THEN {} ELSE {"out/segments.csv"}
        windowFiles == IF opts.no_windows THEN {} ELSE {"out/downtime_windows.csv"}
        segments == SumOver([id \in ids |-> Len(build_segments(results[id]))], ids)
        windows == Cardinality({id \in ids :
                       /\ TruthyStr(results[id].downtime_start)
                       /\ TruthyStr(results[id].downtime_end)})
    IN  [file \in incidentFiles \cup segmentFiles \cup windowFiles |->
            IF file = "out/segments.csv" THEN segments
            ELSE IF file = "out/downtime_windows.csv" THEN windows
            ELSE IF opts.incidents_format = "split" THEN 1
            ELSE Cardinality(ids)]

InitRun ==
    /\ incidents = << >>
    /\ seenPublished = {}
    /\ carriers = << >>
    /\ finalized = None
    /\ messages = << >>
    /\ window = None
    /\ EnrichIdle
    /\ CallIdle
    /\ commits = << >>
    /\ position = 0
    /\ step = "log"
    /\ options \in RunOptions
    /\ outputs = << >>

\* commits_raw = run_git(["log", ...]); commits = [...]; commits.reverse()
GitLog ==
    /\ step = "log"
    /\ \E result \in GitLogResults :
          IF result.returncode # 0
          THEN /\ step' = "raised"
               /\ UNCHANGED <<commits, position>>
          ELSE /\ commits' = Reverse(result.lines)
               /\ position' = 1
               /\ step' = "replay"
    /\ UNCHANGED <<options, outputs>>
    /\ UNCHANGED <<mainVars, enrichVars, callVars>>

\* one iteration of the replay loop: git show, parse_atom, merge
ReplayCommit ==
    /\ step = "replay"
    /\ position <= Len(commits)
    /\ incidents' =
          IF commits[position].readable
          THEN replay_entries(incidents, commits[position].entries)
          ELSE incidents
    /\ position' = position + 1
    /\ UNCHANGED <<commits, step, options, outputs>>
    /\ UNCHANGED <<seenPublished, carriers, finalized, messages, window>>
    /\ UNCHANGED <<enrichVars, callVars>>

\* finalized = [finalize_incident(incident) for incident in incidents.values()],
\* the list as a map id -> finalized incident
finalize_all(entries) ==
    [id \in DOMAIN entries |-> finalize_incident(entries[id])]

\* after the loop: finalize every incident (once) and write the files
WriteOutputs ==
    /\ step = "replay"
    /\ position > Len(commits)
    /\ \E results \in {finalize_all(incidents)} :
           IF \E id \in DOMAIN incidents : results[id] = ValueError
           THEN /\ step' = "raised"
                /\ UNCHANGED <<incidents, finalized, outputs>>
           ELSE /\ step' = "done"
                /\ finalized' = results
                /\ incidents' =
                      [id \in DOMAIN incidents |->
                          [incidents[id] EXCEPT !.updates =
                              [i \in 1..Len(@) |->
                                  [k |-> @[i].k, v |-> render_update(@[i].v)]]]]
                /\ outputs' = written_files(results, options)
    /\ UNCHANGED <<commits, position, options>>
    /\ UNCHANGED <<seenPublished, carriers, messages, window>>
    /\ UNCHANGED <<enrichVars, callVars>>

NextRun == GitLog \/ ReplayCommit \/ WriteOutputs

SpecRun == InitRun /\ [][NextRun]_vars

(***************************************************************************)
(* Properties of the run                                                   *)
(***************************************************************************)
\* the entries of the revisions that could be read
ReadEntries ==
    UNION {Range(commits[i].entries) :
              i \in {j \in 1..Len(commits) : commits[j].readable}}

\* C14: when git log lists no revision the run does not complete and writes
\* no file; a revision that cannot be read is skipped and the incidents of
\* the other revisions are still replayed.
C14_NoHistoryFails ==
    /\ (step \in {"replay", "done"} /\ commits = << >>) =>
          (step # "done" /\ DOMAIN outputs = {})
    /\ step = "done" =>
          \A entry \in ReadEntries :
              /\ entry.id \in DOMAIN incidents
              /\ \A u \in Range(entry.updates) :
                    update_key(u) \in DictKeys(incidents[entry.id].updates)

(***************************************************************************)
(* run_gliner_experiment.py: main(), the audit pass and the evaluation     *)
(* (GLiNER2 installed, without --as-of)                                    *)
(***************************************************************************)
\* incident_text: as the inference text of extract_incidents
incident_text(incident) ==
    LET open == SelectSeq(incident.updates,
                          LAMBDA u : u.status # "Resolved" /\ u.message # "")
    IN  (IF incident.title = "" THEN << >> ELSE <<incident.title>>)
        \o [i \in 1..Len(open) |-> open[i].message]

\* infer_components(model, text, threshold), entities being the model's answer
infer_components(text, threshold, entities) ==
    IF text = << >> THEN [components |-> << >>, confidences |-> << >>]
    ELSE LET chosen == select_components_from_entities(entities, threshold)
             components == filter_components_by_alias(chosen.selected, text)
         IN  [components |-> components,
              confidences |-> confidences_of(components, chosen.confidences)]

is_never_explicit(inc) == FALSE

\* inc.get("components") and inc.get("components_source") != "gliner2"
is_explicit(inc) == TruthyList(inc.components) /\ inc.components_source # "gliner2"

\* find_evidence: the part of the text an alias pattern of the label matches
find_evidence(text, label) ==
    IF \E i \in 1..Len(text) : label \in Mentions(text[i])
    THEN text[CHOOSE i \in 1..Len(text) :
                 /\ label \in Mentions(text[i])
                 /\ \A j \in 1..(i - 1) : label \notin Mentions(text[j])]
    ELSE NoneStr

\* Lines of the incidents file
EvalIncidents ==
    {[id |-> "bare", title |-> "git push fails", updates |-> << >>,
      components |-> NoKey, components_source |-> NoneStr],
     [id |-> "emptied", title |-> "", updates |-> << >>,
      components |-> List(<< >>), components_source |-> NoneStr],
     [id |-> "tagged", title |-> "git push fails", updates |-> << >>,
      components |-> List(<<"Git Operations">>), components_source |-> NoneStr],
     [id |-> "tagged-two", title |-> "Webhooks delayed",
      updates |-> <<[status |-> "Investigating", message |-> "git push fails"]>>,
      components |-> List(<<"Webhooks", "Copilot">>), components_source |-> NoneStr],
     [id |-> "machine", title |-> "git push fails", updates |-> << >>,
      components |-> List(<<"Git Operations">>), components_source |-> "gliner2"]}

\* Answers of the model in the experiment
EvalEntityDicts ==
    DictsOver({"Git Operations", "Webhooks"}, {<<Unscored>>, <<Scored(30)>>}, 2)

\* A rate: numerator/denominator, 0 when the denominator is 0
Rate(numerator, denominator) ==
    IF denominator # 0 THEN [num |-> numerator, den |-> denominator]
    ELSE [num |-> 0, den |-> 1]

false_negatives_of(pred_set, truth_set) == truth_set \ pred_set

false_positives_swapped(pred_set, truth_set) == truth_set \ pred_set

\* fp = pred_set - truth_set
false_positives_of(pred_set, truth_set) == pred_set \ truth_set

\* per_label[label][kind] += 1 for every label of the set
per_label_add(per_label, labels, kind) ==
    [label \in DOMAIN per_label \cup labels |->
        LET old == IF label \in DOMAIN per_label THEN per_label[label]
                   ELSE [tp |-> 0, fp |-> 0, fn |-> 0]
        IN  IF label \in labels THEN [old EXCEPT ![kind] = @ + 1] ELSE old]

InitEval ==
    /\ incidents = << >>
    /\ seenPublished = {}
    /\ carriers = << >>
    /\ finalized = None
    /\ messages = << >>
    /\ window = None
    /\ EnrichIdle
    /\ commits = << >>
    /\ outputs = << >>
    /\ options = [threshold |-> 50]
    /\ input \in SeqsUpTo(EvalIncidents, MaxIncidents)
    /\ position = 1
    /\ step = "audit"
    /\ output = [audit |-> << >>,
                 truth_pool |-> << >>,
                 predictions |-> << >>,
                 metrics |-> [total |-> 0, predicted_non_empty |-> 0,
                              exact_match |-> 0, tp |-> 0, fp |-> 0, fn |-> 0],
                 per_label |-> << >>,
                 precision |-> Rate(0, 0),
                 recall |-> Rate(0, 0),
                 exact_match_rate |-> Rate(0, 0)]

\* one iteration of the audit loop
AuditIncident ==
    /\ step = "audit"
    /\ position <= Len(input)
    /\ LET inc == input[position]
           text == incident_text(inc)
       IN  IF is_explicit(inc) THEN UNCHANGED output
           ELSE \E entities \in EvalEntityDicts :
                   LET inferred == infer_components(text, options.threshold, entities)
                   IN  IF inferred.components = << >> THEN UNCHANGED output
                       ELSE output' =
                              [output EXCEPT !.audit = Append(@,
                                  [id |-> inc.id,
                                   title |-> inc.title,
                                   components |-> inferred.components,
                                   components_confidence |-> inferred.confidences,
                                   evidence |->
                                       [i \in 1..Len(inferred.components) |->
                                           [k |-> inferred.components[i],
                                            v |-> find_evidence(text,
                                                     inferred.components[i])]]])]
    /\ position' = position + 1
    /\ UNCHANGED <<input, commits, step, options, outputs>>
    /\ UNCHANGED <<mainVars, enrichVars>>

\* truth_pool = [inc for inc in incidents if ...]; metrics = {"total": ...}
BuildTruthPool ==
    /\ step = "audit"
    /\ position > Len(input)
    /\ output' = [output EXCEPT
                    !.truth_pool = SelectSeq(input, LAMBDA inc : is_explicit(inc)),
                    !.metrics.total =
                        Len(SelectSeq(input, LAMBDA inc : is_explicit(inc)))]
    /\ position' = 1
    /\ step' = "eval"
    /\ UNCHANGED <<input, commits, options, outputs>>
    /\ UNCHANGED <<mainVars, enrichVars>>

\* one iteration of the evaluation loop
EvalIncident ==
    /\ step = "eval"
    /\ position <= Len(output.truth_pool)
    /\ \E entities \in EvalEntityDicts :
          LET inc == output.truth_pool[position]
              predicted == infer_components(incident_text(inc), options.threshold,
                                            entities).components
              truth == IF TruthyList(inc.components) THEN inc.components.parts
                       ELSE << >>
              pred_set == Range(predicted)
              truth_set == Range(truth)
              tp == pred_set \cap truth_set
              fp == false_positives_of(pred_set, truth_set)
              fn == false_negatives_of(pred_set, truth_set)
              m == output.metrics
          IN  output' =
                 [output EXCEPT
                    !.predictions = Append(@, pred_set),
                    !.metrics =
                        [total |-> m.total,
                         predicted_non_empty |->
                             m.predicted_non_empty + (IF pred_set # {} THEN 1 ELSE 0),
                         exact_match |->
                             m.exact_match + (IF pred_set = truth_set THEN 1 ELSE 0),
                         tp |-> m.tp + Cardinality(tp),
                         fp |-> m.fp + Cardinality(fp),
                         fn |-> m.fn + Cardinality(fn)],
                    !.per_label =
                        per_label_add(per_label_add(per_label_add(@, tp, "tp"),
                                                    fp, "fp"), fn, "fn")]
    /\ position' = position + 1
    /\ UNCHANGED <<input, commits, step, options, outputs>>
    /\ UNCHANGED <<mainVars, enrichVars>>

\* precision, recall, exact_match_rate and the report
WriteReport ==
    /\ step = "eval"
    /\ position > Len(output.truth_pool)
    /\ LET m == output.metrics
       IN  output' = [output EXCEPT
                        !.precision = Rate(m.tp, m.tp + m.fp),
                        !.recall = Rate(m.tp, m.tp + m.fn),
                        !.exact_match_rate = Rate(m.exact_match, m.total)]
    /\ step' = "done"
    /\ UNCHANGED <<input, commits, position, options, outputs>>
    /\ UNCHANGED <<mainVars, enrichVars>>

NextEval == AuditIncident \/ BuildTruthPool \/ EvalIncident \/ WriteReport

SpecEval == InitEval /\ [][NextEval]_vars

(***************************************************************************)
(* Properties of the experiment                                            *)
(***************************************************************************)
\* the ids written to the audit log
AuditedIds == {output.audit[i].id : i \in 1..Len(output.audit)}

\* C15 as stated: every audit record is of an incident that carries no
\* components at all; neither an incident with explicit components nor one
\* with machine-inferred components is written.
C15_AuditOnlyWithoutComponents ==
    \A inc \in EvalIncidents :
        inc.id \in AuditedIds => inc.components \in {NoKey, Null, List(<< >>)}

\* C15: every audit record is of an incident without explicit components:
\* one that carries no components, or whose components are machine-inferred
\* (components_source = "gliner2"); an incident with explicit components is
\* never written.
C15_AuditOnlyWithoutExplicit ==
    \A inc \in EvalIncidents :
        inc.id \in AuditedIds =>
            \/ inc.components \in {NoKey, Null, List(<< >>)}
            \/ inc.components_source = "gliner2"

\* an incident with machine-inferred components was inferred again and
\* written, after an incident with explicit components was passed over
C15_Witness ==
    /\ step = "eval"
    /\ Len(input) = 2
    /\ input[1].id = "tagged"
    /\ input[2].id = "machine"
    /\ AuditedIds = {"machine"}

RECURSIVE SumSeq(_)
SumSeq(s) == IF s = << >> THEN 0 ELSE Head(s) + SumSeq(Tail(s))

\* the truth sets of the pool the claim is about, in the order of the file
TruthSets ==
    LET pool == SelectSeq(input, LAMBDA inc :
                    /\ inc.components \notin {NoKey, Null, List(<< >>)}
                    /\ inc.components_source # "gliner2")
    IN  [i \in 1..Len(pool) |-> Range(pool[i].components.parts)]

\* C16: when the report is written, tp, fp and fn are the sums over the
\* truth pool of |predicted & truth|, |predicted - truth| and
\* |truth - predicted|, the per-label counts sum to the same totals,
\* precision = tp/(tp+fp) and recall = tp/(tp+fn), each 0 when its
\* denominator is 0, and the exact-match rate is the number of incidents
\* whose predicted set equals the truth set over the pool size, 0 for an
\* empty pool.
C16_MetricsAreSums ==
    step = "done" =>
        LET n == Len(TruthSets)
            pred == output.predictions
            tp == SumSeq([i \in 1..n |-> Cardinality(pred[i] \cap TruthSets[i])])
            fp == SumSeq([i \in 1..n |-> Cardinality(pred[i] \ TruthSets[i])])
            fn == SumSeq([i \in 1..n |-> Cardinality(TruthSets[i] \ pred[i])])
            exact == Cardinality({i \in 1..n : pred[i] = TruthSets[i]})
            labels == DOMAIN output.per_label
            m == output.metrics
        IN  /\ Len(pred) = n
            /\ m.total = n
            /\ m.tp = tp /\ m.fp = fp /\ m.fn = fn
            /\ m.exact_match = exact
            /\ SumOver([l \in labels |-> output.per_label[l].tp], labels) = tp
            /\ SumOver([l \in labels |-> output.per_label[l].fp], labels) = fp
            /\ SumOver([l \in labels |-> output.per_label[l].fn], labels) = fn
            /\ output.precision =
                  IF tp + fp = 0 THEN [num |-> 0, den |-> 1]
                  ELSE [num |-> tp, den |-> tp + fp]
            /\ output.recall =
                  IF tp + fn = 0 THEN [num |-> 0, den |-> 1]
                  ELSE [num |-> tp, den |-> tp + fn]
            /\ output.exact_match_rate =
                  IF n = 0 THEN [num |-> 0, den |-> 1]
                  ELSE [num |-> exact, den |-> n]

\* a pool of two: one exact match, one with a false positive and two false
\* negatives
C16_Witness ==
    /\ step = "done"
    /\ Len(output.truth_pool) = 2
    /\ output.metrics.exact_match = 1
    /\ output.metrics.tp = 1
    /\ output.metrics.fp = 1
    /\ output.metrics.fn = 2
    /\ output.precision = [num |-> 1, den |-> 2]
    /\ output.recall = [num |-> 1, den |-> 3]
    /\ output.exact_match_rate = [num |-> 1, den |-> 2]

(***************************************************************************)
(* Replay order of the merge engine                                        *)
(***************************************************************************)
\* the update map after folding the entries into the incident, in order
RECURSIVE FoldUpdates(_, _)
FoldUpdates(existingOpt, entries) ==
    IF entries = << >>
    THEN IF existingOpt = << >> THEN << >> ELSE existingOpt[1].updates
    ELSE FoldUpdates(<<merge_incident(existingOpt, Head(entries))>>, Tail(entries))

\* (timestamp, status, message) of the updates of a map
TriplesOf(updates) == {UpdateTriple(updates[i].v) : i \in 1..Len(updates)}

\* the entries of at most two updates
PairEntries == {E \in NarrativeEntries : Len(E.updates) <= 2}

\* C20: in every state, merging any two further entries in either order
\* gives the same keys and the same updates, the keys being those stored
\* together with those of the two entries; and after every merge the keys of
\* the update map are exactly the update keys of all entries merged so far,
\* and every update stored before the merge is still there, unaltered and at
\* its place.
C20_UpdatesOrderIndependent ==
    /\ [](\A E, F \in PairEntries :
              LET EF == FoldUpdates(IncidentsGet(incidents, IncidentId), <<E, F>>)
                  FE == FoldUpdates(IncidentsGet(incidents, IncidentId), <<F, E>>)
              IN  /\ DictKeys(EF) = DictKeys(FE)
                  /\ TriplesOf(EF) = TriplesOf(FE)
                  /\ DictKeys(EF) =
                        (IF HasMerged THEN DictKeys(Merged.updates) ELSE {})
                        \cup {update_key(u) : u \in Range(E.updates)}
                        \cup {update_key(u) : u \in Range(F.updates)})
    /\ [][/\ DictKeys(Merged'.updates) =
                 {IsoZ(t[1]) \o "|" \o t[2] \o "|" \o t[3] : t \in DOMAIN carriers'}
          /\ HasMerged =>
                 /\ Len(Merged'.updates) >= Len(Merged.updates)
                 /\ \A i \in 1..Len(Merged.updates) :
                       Merged'.updates[i] = Merged.updates[i]]_vars

\* three updates from entries that overlap: the second entry repeats an
\* update of the first at another index
C20_Witness ==
    /\ HasMerged
    /\ Len(Merged.updates) = 3
    /\ \E i, j \in 1..3 : /\ i # j
                          /\ Merged.updates[i].v.order = 1
                          /\ Merged.updates[j].v.order = 1

(***************************************************************************)
(* parse_updates: the loop over the paragraph blocks                       *)
(***************************************************************************)
\* the exception datetime(...) raises for an argument that is no integer
TypeError == [raised |-> "TypeError"]

MONTH_ABBR ==
    [name \in {"Jan", "Feb", "Mar", "Apr", "May", "Jun", "Jul", "Aug", "Sep",
               "Oct", "Nov", "Dec"} |->
        CASE name = "Jan" -> 1 [] name = "Feb" -> 2 [] name = "Mar" -> 3
          [] name = "Apr" -> 4 [] name = "May" -> 5 [] name = "Jun" -> 6
          [] name = "Jul" -> 7 [] name = "Aug" -> 8 [] name = "Sep" -> 9
          [] name = "Oct" -> 10 [] name = "Nov" -> 11 [] name = "Dec" -> 12]

\* what MONTH_ABBR.get returns for a token that is no key: Python's None
NoneMonth == 0

\* MONTH_ABBR.get(small.group(1))
month_abbr_get(token) ==
    IF token \in DOMAIN MONTH_ABBR THEN MONTH_ABBR[token] ELSE NoneMonth

\* the continue of a block that yields no update
Skipped == [skipped |-> TRUE]

\* One pass of the loop body for the block of index idx.  A p_block is given
\* by what SMALL_RE and STATUS_RE find in it: small is None or the groups
\* [month, day, hour, minute], status is NoneStr or the label.  With month
\* None, datetime(year, None, ...) in infer_year raises TypeError, which its
\* `except ValueError` does not catch.
parse_block(p_block, idx, published_at) ==
    IF p_block.small = None \/ p_block.status = NoneStr THEN Skipped
    ELSE LET month == month_abbr_get(p_block.small.month)
         IN  IF month = NoneMonth THEN TypeError
             ELSE LET dt == infer_year(published_at, month, p_block.small.day,
                                       p_block.small.hour, p_block.small.minute)
                  IN  IF dt = NoneDt THEN Skipped
                      ELSE [at |-> dt, status |-> p_block.status,
                            message |-> p_block.message, order |-> idx]

RECURSIVE parse_blocks_from(_, _, _, _)
\* the for loop from the block of index idx on, updates being the list so
\* far: [value |-> the list at the end], or the exception that ends the call
parse_blocks_from(blocks, idx, published_at, updates) ==
    IF idx >= Len(blocks) THEN [value |-> updates]
    ELSE LET this == parse_block(blocks[idx + 1], idx, published_at)
         IN  IF this = TypeError THEN TypeError
             ELSE parse_blocks_from(blocks, idx + 1, published_at,
                      IF this = Skipped THEN updates ELSE Append(updates, this))

\* parse_updates: the loop, then updates.sort(key=lambda item: item["at"]);
\* [value |-> the list returned], or the exception raised
parse_updates(blocks, published_at) ==
    LET looped == parse_blocks_from(blocks, 0, published_at, << >>)
    IN  IF looped = TypeError THEN TypeError
        ELSE [value |->
                 StableSort(looped.value,
                     [i \in 1..Len(looped.value) |->
                         [j \in 1..Len(looped.value) |->
                             looped.value[i].at < looped.value[j].at]])]

\* What SMALL_RE and STATUS_RE can find in a <p> block: complete blocks, a
\* block without <small>, one without <strong>, a month token that is no
\* abbreviation, days and hours that exist in no candidate year, and Feb 29
ParseBlocks ==
    {[small |-> [month |-> "Jan", day |-> 1, hour |-> 12, minute |-> 0],
      status |-> "Investigating", message |-> "We are investigating."],
     [small |-> [month |-> "Dec", day |-> 31, hour |-> 23, minute |-> 30],
      status |-> "Resolved", message |-> "Resolved."],
     [small |-> None, status |-> "Resolved", message |-> "Resolved."],
     [small |-> [month |-> "Jan", day |-> 1, hour |-> 12, minute |-> 0],
      status |-> NoneStr, message |-> "We are investigating."],
     [small |-> [month |-> "Foo", day |-> 1, hour |-> 12, minute |-> 0],
      status |-> "Update", message |-> "Still looking."],
     [small |-> [month |-> "Feb", day |-> 30, hour |-> 12, minute |-> 0],
      status |-> "Update", message |-> "Still looking."],
     [small |-> [month |-> "Jan", day |-> 1, hour |-> 25, minute |-> 0],
      status |-> "Update", message |-> "Still looking."],
     [small |-> [month |-> "Feb", day |-> 29, hour |-> 12, minute |-> 0],
      status |-> "Monitoring", message |-> "Watching."]}

InitParseUpdates ==
    /\ incidents = << >>
    /\ seenPublished = {}
    /\ carriers = << >>
    /\ finalized = None
    /\ messages = << >>
    /\ window = None
    /\ EnrichIdle
    /\ RunIdle
    /\ input \in [blocks : SeqsUpTo(ParseBlocks, MaxBlocks),
                  published_at : References]
    /\ output = None

\* output is [value |-> the list returned] or the exception raised
ParseUpdates ==
    /\ output = None
    /\ output' = parse_updates(input.blocks, input.published_at)
    /\ UNCHANGED input
    /\ UNCHANGED <<mainVars, enrichVars, runVars>>

NextParseUpdates == ParseUpdates

SpecParseUpdates == InitParseUpdates /\ [][NextParseUpdates]_vars

\* the month/day/time of a block exists in a year around the reference
HasCandidate(small) ==
    /\ small.month \in DOMAIN MONTH_ABBR
    /\ small.hour \in 0..23
    /\ small.minute \in 0..59
    /\ \E year \in {input.published_at.year - 1, input.published_at.year,
                    input.published_at.year + 1} :
          /\ small.day >= 1
          /\ small.day <= DaysInMonth(year, MONTH_ABBR[small.month])

\* indexes of the blocks with both markers and a timestamp that resolves
WellFormed ==
    {idx \in 0..(Len(input.blocks) - 1) :
        LET p_block == input.blocks[idx + 1]
        IN  /\ p_block.small # None
            /\ p_block.status # NoneStr
            /\ HasCandidate(p_block.small)}

\* a block with both markers whose month token is no abbreviation
HasUnknownMonth ==
    \E idx \in 0..(Len(input.blocks) - 1) :
        LET p_block == input.blocks[idx + 1]
        IN  /\ p_block.small # None
            /\ p_block.status # NoneStr
            /\ p_block.small.month \notin DOMAIN MONTH_ABBR

\* the list returned holds exactly the well-formed blocks, in time order
ReturnsWellFormed ==
    /\ "value" \in DOMAIN output
    /\ {output.value[i].order : i \in 1..Len(output.value)} = WellFormed
    /\ Len(output.value) = Cardinality(WellFormed)
    /\ \A i \in 1..Len(output.value) :
          /\ output.value[i].status = input.blocks[output.value[i].order + 1].status
          /\ \A j \in (i + 1)..Len(output.value) :
                output.value[i].at <= output.value[j].at

\* C21: parse_updates never aborts on a malformed block: a block whose
\* timestamp marker resolves to no valid date (unknown month token, or a day
\* that exists in no candidate year) is dropped like a block that lacks a
\* marker, and every other block of the narrative is still returned.
C21_MalformedBlockDropped ==
    output # None => (output # TypeError /\ ReturnsWellFormed)

\* a narrative with a well-formed block and an unknown month token: the call
\* ends in TypeError and returns nothing
C21_UnknownMonthRaises ==
    /\ output = TypeError
    /\ HasUnknownMonth
    /\ WellFormed # {}

\* outside unknown month tokens the claim holds: blocks lacking a marker and
\* blocks whose day or hour exists in no candidate year are dropped, the
\* others returned; with an unknown month token the call raises
C21_DroppedUnlessUnknownMonth ==
    output # None =>
        IF HasUnknownMonth THEN output = TypeError ELSE ReturnsWellFormed

\* a day that exists in no candidate year is dropped next to a returned block
C21_Witness ==
    /\ output # None
    /\ ~HasUnknownMonth
    /\ WellFormed # {}
    /\ \E idx \in 0..(Len(input.blocks) - 1) :
          /\ idx \notin WellFormed
          /\ input.blocks[idx + 1].small # None
          /\ input.blocks[idx + 1].status # NoneStr

====
